---- MODULE Spec2Model ----
(***************************************************************************)
(* PolKitHash (polkit/polkit-hash.c): a chained hash table with            *)
(* caller-supplied hash, equality and destroy functions, reference         *)
(* counting and allocation failures reported through return values.        *)
(*                                                                         *)
(* The heap is modelled explicitly: PolKitHashNode blocks are numbered     *)
(* 1..MaxNodes and carry key, value and next; top_nodes is the bucket      *)
(* array.  Keys and values are opaque objects (pointers); a key object     *)
(* has an address and a string content, so that both the identity-based    *)
(* and the content-based hash/equality pairs can be applied to it.         *)
(* Every API call is one atomic action (the code is single-threaded and    *)
(* runs to completion); the events of the most recent call (allocations,   *)
(* frees, destroy callbacks) are kept in log.                              *)
(*                                                                         *)
(* PolKitAction (libpolkit/libpolkit-action.c): a reference-counted holder *)
(* of one identifier string, copied with g_strdup on set.  The string      *)
(* blocks are numbered 1..MaxStr in the order g_strdup returned them.      *)
(***************************************************************************)
EXTENDS Integers, Sequences, FiniteSets, TLC

\* ---------------------------------------------------------------- bounds
NumKeys == 3
NumValues == 2
MaxNodes == 2
MaxRef == 2
MaxStr == 3
NumIds == 2

\* ------------------------------------------------------------- constants
NULL == 0
NUM_TOP_NODES == 11

KeyObjs == 1..NumKeys
ValObjs == 1..NumValues
NodeIds == 1..MaxNodes

VARIABLES
    h,                  \* the PolKitHash block: "NULL", "live" or "freed"
    refcount,
    num_top_nodes,
    top_nodes,          \* <<>> when NULL, else [0..num_top_nodes-1 -> node or NULL]
    top_live,           \* the bucket array block is allocated
    hash_func,
    key_equal_func,
    key_destroy_func,
    value_destroy_func,
    node_live,          \* PolKitHashNode blocks that are allocated
    node_key,
    node_value,
    node_next,
    key_freed,          \* per key object: times key_destroy_func was run on it
    value_freed,        \* per value object: times value_destroy_func was run on it
    call,               \* the most recent API call and its arguments
    ret,                \* what that call returned
    log,                \* the allocator/destructor events of that call, in order
    ref,                \* reference map: key object -> value last inserted under an equal key
    given_keys,         \* key objects handed over to a table that owns its keys
    given_values,       \* value objects handed over to a table that owns its values
    acquires,           \* references taken so far (construction counts as the first)
    releases            \* polkit_hash_unref calls so far

table == <<h, refcount, num_top_nodes, top_nodes, top_live, hash_func,
           key_equal_func, key_destroy_func, value_destroy_func,
           node_live, node_key, node_value, node_next>>

hvars == <<h, refcount, num_top_nodes, top_nodes, top_live, hash_func,
           key_equal_func, key_destroy_func, value_destroy_func,
           node_live, node_key, node_value, node_next,
           key_freed, value_freed, call, ret, log, ref, given_keys, given_values,
           acquires, releases>>

VARIABLES
    action,             \* the PolKitAction block: "NULL", "live" or "freed"
    a_refcount,         \* action->refcount
    a_id,               \* action->id: NULL or a string block
    str_used,           \* string blocks g_strdup has returned so far
    str_text,           \* per string block: the bytes it was filled with
    str_freed,          \* per string block: times g_free was run on it
    out,                \* the caller's char *: what out_action_id points to
    acall,              \* the most recent call on the action and its arguments
    aret,               \* what that call returned
    alog,               \* the allocator events of that call, in order
    last_id,            \* the identifier most recently passed to set_action_id
    a_acquires,         \* references on the action taken so far
    a_releases          \* libpolkit_action_unref calls so far

avars == <<action, a_refcount, a_id, str_used, str_text, str_freed, out,
           acall, aret, alog, last_id, a_acquires, a_releases>>

vars == <<hvars, avars>>

\* ------------------------------------------------- keys: address, content
\* The strings of _run_test, as byte sequences.
Strings == << <<107, 101, 121, 54>>,          \* "key6"
              <<107, 101, 121, 49, 48>>,      \* "key10"
              <<107, 101, 121, 49>>,          \* "key1"
              <<117, 110, 107, 110, 111, 119, 110>>,  \* "unknown"
              <<107, 101, 121, 50>>,          \* "key2"
              <<107, 101, 121, 51>> >>        \* "key3"

\* Key objects 2 and 3 are two copies (p_strdup) of the same string.
Content(k) == Strings[((k \div 2) % Len(Strings)) + 1]

\* TLC's integers are 32 bits wide, so a pointer is written as four 16-bit
\* limbs (most significant first) and a polkit_uint32_t as two: <<hi, lo>>.
LIMB == 2^16

\* The address of key object k (a 64-bit pointer, 0x00004000ffffXXXX).
Addr(k) == <<0, 16384, 65535, 64832 + 88 * k + (IF k % 2 = 0 THEN 16 ELSE 0)>>

\* What a freed key's memory may read as: the string of any key object, or
\* something else (here the empty string).
Garbage == {Content(k) : k \in 1..NumKeys} \cup {<<>>}

\* ------------------------------------------- built-in hash and equality
\* g_direct_hash: the pointer truncated to 32 bits.
p_direct_hash(k) == <<Addr(k)[3], Addr(k)[4]>>

\* hv * 33 + c in polkit_uint32_t arithmetic (modulo 2^32).
Times33Plus(hv, c) ==
    LET lo == hv[2] * 33 + c
    IN  <<(hv[1] * 33 + (lo \div LIMB)) % LIMB, lo % LIMB>>

RECURSIVE StrHashFrom(_, _)
StrHashFrom(hv, s) ==
    IF s = <<>> THEN hv
    ELSE StrHashFrom(Times33Plus(hv, Head(s)), Tail(s))

\* g_str_hash: the "djb" string hash over the bytes of the string,
\* starting from 5381.
p_str_hash(s) == StrHashFrom(<<0, 5381>>, s)

\* hv % n for a polkit_uint32_t hv and a small positive int n (the int is
\* converted to unsigned, the result is in 0..n-1).
UMod(hv, n) == ((hv[1] % n) * (LIMB % n) + (hv[2] % n)) % n

p_direct_equal(k1, k2) == k1 = k2

p_str_equal(s1, s2) == s1 = s2

\* hash->hash_func (key), with mem the content the key pointers read as.
HashOf(f, key, mem) ==
    IF f = "p_direct_hash" THEN p_direct_hash(key) ELSE p_str_hash(mem[key])

\* Variant: the keys are compared as pointers whatever key_equal_func is.
KeyEqualByAddress(f, key, nkey, mem) == key = nkey

\* hash->key_equal_func (key, node->key)
KeyEqual(f, key, nkey, mem) ==
    IF f = "p_direct_equal" THEN p_direct_equal(key, nkey)
    ELSE p_str_equal(mem[key], mem[nkey])

\* Variant: the hash value is cut to its low 16 bits before the modulo.
BucketLow16(key, mem) == HashOf(hash_func, key, mem)[2] % num_top_nodes

\* bucket = hash->hash_func (key) % hash->num_top_nodes
Bucket(key, mem) == UMod(HashOf(hash_func, key, mem), num_top_nodes)


\* The true contents of the key objects (no key freed).
Mem0 == [k \in KeyObjs |-> Content(k)]

\* ----------------------------------------------------------- event log
Ev(e, a) == [ev |-> e, arg |-> a]

CountEv(l, e, a) == Cardinality({i \in DOMAIN l : l[i] = Ev(e, a)})

HasEv(l, e) == \E i \in DOMAIN l : l[i].ev = e

Min(a, b) == IF a < b THEN a ELSE b

\* ------------------------------------------------------- chain scanning
\* A chain of the table has at most MaxNodes nodes; a scan that takes more
\* steps than that is going round a cycle and never returns (hang).
Fuel == MaxNodes + 1

\* Variant: the value_destroy_func call is left out.
DestroyKeyOnly(nkey, nvalue) ==
    IF key_destroy_func # "NULL" THEN <<Ev("key_destroy", nkey)>> ELSE <<>>

\* Variant: both slots are released as soon as one destroy function is set.
DestroyEventsCoupled(nkey, nvalue) ==
    IF key_destroy_func # "NULL" \/ value_destroy_func # "NULL"
    THEN <<Ev("key_destroy", nkey), Ev("value_destroy", nvalue)>>
    ELSE <<>>

\* if (hash->key_destroy_func != NULL) hash->key_destroy_func (node->key);
\* if (hash->value_destroy_func != NULL) hash->value_destroy_func (node->value);
DestroyEvents(nkey, nvalue) ==
    (IF key_destroy_func # "NULL" THEN <<Ev("key_destroy", nkey)>> ELSE <<>>)
    \o (IF value_destroy_func # "NULL" THEN <<Ev("value_destroy", nvalue)>> ELSE <<>>)

\* The while loop of polkit_hash_insert: nodep follows the scan; stops at
\* the first node whose key equals key, or at the end of the chain.
\* nodep is a location: top_nodes[idx] (top) or node idx's next field.
RECURSIVE InsertScan(_, _, _, _, _)
InsertScan(node, nodep, key, mem, fuel) ==
    IF node = NULL THEN [found |-> FALSE, hang |-> FALSE, node |-> NULL, nodep |-> nodep]
    ELSE IF fuel = 0 THEN [found |-> FALSE, hang |-> TRUE, node |-> NULL, nodep |-> nodep]
    ELSE IF KeyEqual(key_equal_func, key, node_key[node], mem)
         THEN [found |-> TRUE, hang |-> FALSE, node |-> node,
               nodep |-> [top |-> FALSE, idx |-> node]]
         ELSE InsertScan(node_next[node], [top |-> FALSE, idx |-> node], key, mem, fuel - 1)

\* Variant: value is left unset on a miss and reads as what was last there.
LookupMissStale == [value |-> call.value, found |-> FALSE, hang |-> FALSE]

\* value = NULL; *found = FALSE;
LookupMiss == [value |-> NULL, found |-> FALSE, hang |-> FALSE]

\* Variant: found is derived from the value instead of being set to TRUE.
LookupHitByValue(node) ==
    [value |-> node_value[node], found |-> node_value[node] # NULL, hang |-> FALSE]

\* value = node->value; *found = TRUE;
LookupHit(node) == [value |-> node_value[node], found |-> TRUE, hang |-> FALSE]

\* The while loop of polkit_hash_lookup.
RECURSIVE LookupScan(_, _, _, _)
LookupScan(node, key, mem, fuel) ==
    IF node = NULL THEN LookupMiss
    ELSE IF fuel = 0 THEN [value |-> NULL, found |-> FALSE, hang |-> TRUE]
    ELSE IF KeyEqual(key_equal_func, key, node_key[node], mem)
         THEN LookupHit(node)
         ELSE LookupScan(node_next[node], key, mem, fuel - 1)

\* polkit_hash_lookup (hash, key, &found)
polkit_hash_lookup(key, mem) ==
    LookupScan(top_nodes[Bucket(key, mem)], key, mem, Fuel)

\* The inner for loop of polkit_hash_unref over one chain.
RECURSIVE WalkChain(_, _)
WalkChain(node, fuel) ==
    IF node = NULL THEN <<>>
    ELSE IF fuel = 0 THEN <<Ev("hang", node)>>
    ELSE DestroyEvents(node_key[node], node_value[node])
         \o <<Ev("free_node", node)>>
         \o WalkChain(node_next[node], fuel - 1)

\* The outer for loop of polkit_hash_unref, from bucket n on.
\* Reading top_nodes[n] through a NULL top_nodes is a crash (segv).
RECURSIVE WalkBuckets(_, _, _)
WalkBuckets(tn, num, n) ==
    IF n >= num THEN <<>>
    ELSE IF DOMAIN tn = {} THEN <<Ev("segv", n)>>
    ELSE WalkChain(tn[n], Fuel) \o WalkBuckets(tn, num, n + 1)

\* Variant: the walk is made without the NULL check.
WalkTableUnchecked(tn, num) == WalkBuckets(tn, num, 0)

\* if (hash->top_nodes != NULL) { ... walk ... }
WalkTable(tn, num) == IF DOMAIN tn # {} THEN WalkBuckets(tn, num, 0) ELSE <<>>

\* Variant: the table is kept until the count goes below zero.
StillReferencedLate(rc) == rc >= 0

\* if (hash->refcount > 0) return;   (after the decrement)
StillReferenced(rc) == rc > 0

\* Variant: the bucket array is freed before the chains are walked.
UnrefLogArrayFirst(rc, tn, num) ==
    IF StillReferenced(rc - 1) THEN <<>>
    ELSE <<Ev("free_top_nodes", IF DOMAIN tn # {} THEN 1 ELSE NULL)>>
         \o WalkTable(tn, num)
         \o <<Ev("free_hash", 1)>>

\* polkit_hash_unref on a table with refcount rc, bucket array tn and
\* num_top_nodes num: the events of the call.
UnrefLog(rc, tn, num) ==
    IF StillReferenced(rc - 1) THEN <<>>
    ELSE WalkTable(tn, num)
         \o <<Ev("free_top_nodes", IF DOMAIN tn # {} THEN 1 ELSE NULL)>>
         \o <<Ev("free_hash", 1)>>

\* What the destroy callbacks and p_free calls of log l do to the heap.
KeyFreedAfter(l) ==
    [k \in KeyObjs |-> Min(2, key_freed[k] + CountEv(l, "key_destroy", k))]

ValueFreedAfter(l) ==
    [v \in ValObjs |-> Min(2, value_freed[v] + CountEv(l, "value_destroy", v))]

NodeLiveAfter(l) == {n \in node_live : CountEv(l, "free_node", n) = 0}


\* ------------------------------------------------------------ the caller
StoredKeys == {node_key[n] : n \in node_live}

StoredValues == {node_value[n] : n \in node_live}

\* Keys the caller may hand over: live objects, and when the table owns its
\* keys (key_destroy_func set) objects the table does not own already.
OwnedKeys ==
    {k \in KeyObjs : key_freed[k] = 0 /\ (key_destroy_func # "NULL" => k \notin StoredKeys)}

OwnedValues ==
    {NULL} \cup {v \in ValObjs : value_freed[v] = 0
                     /\ (value_destroy_func # "NULL" => v \notin StoredValues)}

\* Keys the caller may look up: any live key object.
LiveKeys == {k \in KeyObjs : key_freed[k] = 0}

\* Key objects a node still points to although they were destroyed.
Dangling == {k \in StoredKeys : k # NULL /\ key_freed[k] > 0}

\* Value objects a node still points to although they were destroyed.
DanglingValues == {v \in StoredValues : v # NULL /\ value_freed[v] > 0}

\* What the key pointers may read as during a call: the string of every
\* live key, anything for a freed key the table still points to.
Views ==
    {[k \in KeyObjs |-> IF k \in Dangling THEN g[k] ELSE Content(k)] :
        g \in [Dangling -> Garbage]}

HashFuncs == {"NULL", "p_direct_hash", "p_str_hash"}

EqualFuncs == {"NULL", "p_direct_equal", "p_str_equal"}

FreeFuncs == {"NULL", "p_free"}

\* hf is consistent with ef: keys that are equal have the same hash.
ConsistentFns(hf, ef) ==
    \A k1, k2 \in KeyObjs :
        KeyEqual(ef, k1, k2, Mem0) => HashOf(hf, k1, Mem0) = HashOf(hf, k2, Mem0)

\* The (hash, equality) pairs a caller passes to polkit_hash_new: NULL for
\* either, or a hash function consistent with the equality function.
FnPairs ==
    {p \in HashFuncs \X EqualFuncs :
        p[1] = "NULL" \/ p[2] = "NULL" \/ ConsistentFns(p[1], p[2])}

Call(op, key, value, hf, ef, a1, a2) ==
    [op |-> op, key |-> key, value |-> value, hash_func |-> hf,
     key_equal_func |-> ef, alloc1 |-> a1, alloc2 |-> a2]

Ret(ok, value, found) == [ok |-> ok, value |-> value, found |-> found]

\* The reference map's notion of "same key" under the table's equality.
RefEqual(k1, k2) ==
    IF key_equal_func = "p_direct_equal" THEN k1 = k2 ELSE Content(k1) = Content(k2)

\* ------------------------------------------------- the action object
StrBlocks == 1..MaxStr

\* The identifier strings a caller passes: the empty string and NumIds
\* one-letter strings.
IdTexts == {<<>>} \cup {<<96 + i>> : i \in 1..NumIds}

\* What a freed string block may read as: any identifier, or something else.
Clobbered == IdTexts \cup {<<255>>}

\* The action_id argument: NULL, a string of the caller, or the string the
\* action holds (the pointer libpolkit_action_get_action_id gave out).
IdArg(kind, text) == [kind |-> kind, text |-> text]

NoId == IdArg("null", <<>>)

ACall(op, arg, has_out) == [op |-> op, arg |-> arg, has_out |-> has_out]

\* -------------------------------------------------------------- actions
Init ==
    /\ h = "NULL"
    /\ refcount = 0
    /\ num_top_nodes = 0
    /\ top_nodes = <<>>
    /\ top_live = FALSE
    /\ hash_func = "NULL"
    /\ key_equal_func = "NULL"
    /\ key_destroy_func = "NULL"
    /\ value_destroy_func = "NULL"
    /\ node_live = {}
    /\ node_key = [n \in NodeIds |-> NULL]
    /\ node_value = [n \in NodeIds |-> NULL]
    /\ node_next = [n \in NodeIds |-> NULL]
    /\ key_freed = [k \in KeyObjs |-> 0]
    /\ value_freed = [v \in ValObjs |-> 0]
    /\ call = Call("none", NULL, NULL, "NULL", "NULL", TRUE, TRUE)
    /\ ret = Ret(FALSE, NULL, FALSE)
    /\ log = <<>>
    /\ ref = [k \in KeyObjs |-> [set |-> FALSE, value |-> NULL]]
    /\ given_keys = {}
    /\ given_values = {}
    /\ acquires = 0
    /\ releases = 0
    /\ action = "NULL"
    /\ a_refcount = 0
    /\ a_id = NULL
    /\ str_used = 0
    /\ str_text = [b \in StrBlocks |-> <<>>]
    /\ str_freed = [b \in StrBlocks |-> 0]
    /\ out = NULL
    /\ acall = ACall("none", NoId, FALSE)
    /\ aret = FALSE
    /\ alog = <<>>
    /\ last_id = NoId
    /\ a_acquires = 0
    /\ a_releases = 0

\* g_return_val_if_fail (hash_func != NULL, NULL);
\* g_return_val_if_fail (key_equal_func != NULL, NULL);
NewArgsOk(hf, ef) == hf # "NULL" /\ ef # "NULL"

\* polkit_hash_new; a1, a2: whether the allocation of the table, of the
\* bucket array succeeds.
polkit_hash_new(hf, ef, kd, vd, a1, a2) ==
    /\ h = "NULL"
    /\ call' = Call("new", NULL, NULL, hf, ef, a1, a2)
    /\ UNCHANGED avars
    /\ UNCHANGED <<node_live, node_key, node_value, node_next,
                   key_freed, value_freed, ref, given_keys, given_values, releases>>
    /\ IF ~NewArgsOk(hf, ef)
       THEN /\ log' = <<>>
            /\ ret' = Ret(FALSE, NULL, FALSE)
            /\ UNCHANGED <<h, refcount, num_top_nodes, top_nodes, top_live, hash_func,
                           key_equal_func, key_destroy_func, value_destroy_func, acquires>>
       ELSE IF ~a1
       THEN /\ log' = <<Ev("alloc_fail", NULL)>>
            /\ ret' = Ret(FALSE, NULL, FALSE)
            /\ UNCHANGED <<h, refcount, num_top_nodes, top_nodes, top_live, hash_func,
                           key_equal_func, key_destroy_func, value_destroy_func, acquires>>
       ELSE IF ~a2
       THEN \* error: polkit_hash_unref (h) with refcount 1 and top_nodes NULL
            /\ log' = <<Ev("alloc_hash", 1), Ev("alloc_fail", NULL)>>
                      \o UnrefLog(1, <<>>, NUM_TOP_NODES)
            /\ h' = IF HasEv(log', "free_hash") THEN "NULL" ELSE "leaked"
            /\ ret' = Ret(FALSE, NULL, FALSE)
            /\ UNCHANGED <<refcount, num_top_nodes, top_nodes, top_live, hash_func,
                           key_equal_func, key_destroy_func, value_destroy_func, acquires>>
       ELSE /\ log' = <<Ev("alloc_hash", 1), Ev("alloc_top_nodes", 1)>>
            /\ h' = "live"
            /\ refcount' = 1
            /\ hash_func' = hf
            /\ key_equal_func' = ef
            /\ key_destroy_func' = kd
            /\ value_destroy_func' = vd
            /\ num_top_nodes' = NUM_TOP_NODES
            /\ top_nodes' = [i \in 0..(NUM_TOP_NODES - 1) |-> NULL]
            /\ top_live' = TRUE
            /\ acquires' = 1
            /\ ret' = Ret(TRUE, NULL, FALSE)

\* The PolKitHash block p_new0 returned: the handle of the one table.
HashBlock == 1

\* Variant: the count is left as it is.
RefcountKept(rc) == rc

\* hash->refcount++;
RefcountInc(rc) == rc + 1

\* polkit_hash_ref; returns hash
polkit_hash_ref ==
    /\ h = "live"
    /\ acquires < MaxRef
    /\ refcount' = RefcountInc(refcount)
    /\ acquires' = acquires + 1
    /\ call' = Call("ref", NULL, NULL, "NULL", "NULL", TRUE, TRUE)
    /\ ret' = Ret(TRUE, HashBlock, FALSE)
    /\ log' = <<>>
    /\ UNCHANGED avars
    /\ UNCHANGED <<h, num_top_nodes, top_nodes, top_live, hash_func, key_equal_func,
                   key_destroy_func, value_destroy_func, node_live, node_key,
                   node_value, node_next, key_freed, value_freed, ref,
                   given_keys, given_values, releases>>

\* polkit_hash_unref, called by a holder of a reference
polkit_hash_unref ==
    /\ h = "live"
    /\ releases < acquires
    /\ refcount' = refcount - 1
    /\ releases' = releases + 1
    /\ call' = Call("unref", NULL, NULL, "NULL", "NULL", TRUE, TRUE)
    /\ UNCHANGED avars
    /\ ret' = Ret(TRUE, NULL, FALSE)
    /\ log' = UnrefLog(refcount, top_nodes, num_top_nodes)
    /\ h' = IF HasEv(log', "free_hash") THEN "freed" ELSE h
    /\ top_live' = (top_live /\ CountEv(log', "free_top_nodes", 1) = 0)
    /\ node_live' = NodeLiveAfter(log')
    /\ key_freed' = KeyFreedAfter(log')
    /\ value_freed' = ValueFreedAfter(log')
    /\ UNCHANGED <<num_top_nodes, top_nodes, hash_func, key_equal_func,
                   key_destroy_func, value_destroy_func, node_key,
                   node_value, node_next, ref, given_keys, given_values, acquires>>

FreeNodes == NodeIds \ node_live

\* node = p_new0 (PolKitHashNode, 1): a zeroed block
NewNode == CHOOSE n \in FreeNodes : \A m \in FreeNodes : n <= m

\* Variant: the replace stores the key but not the value.
StoreOnReplaceKeepsValue(node, key, value) == [key |-> key, value |-> node_value[node]]

\* node->key = key; node->value = value;   (replace, into node)
StoreOnReplace(node, key, value) == [key |-> key, value |-> value]

\* Variant: the node is allocated before the chain is scanned.
AllocFailsEarly(s, can) == ~can

\* node = p_new0 (...); if (node == NULL) goto out;   reached only when the
\* scan found no equal key; can: whether the allocator can give a node.
AllocFails(s, can) == ~s.found /\ ~can

\* Variant: the failed call destroys the key and value it was given.
AllocFailDestroys(key, value) == <<Ev("alloc_fail", NULL)>> \o DestroyEvents(key, value)

\* The failed call leaves key and value alone: ret stays FALSE, nothing else.
AllocFailEvents(key, value) == <<Ev("alloc_fail", NULL)>>

\* Variant: the block is not zeroed and next holds the block's own address.
NewNodeFieldsNotZeroed(key, value) == [key |-> key, value |-> value, next |-> NewNode]

\* node->key = key; node->value = value;   (the new node; next is zeroed)
NewNodeFields(key, value) == [key |-> key, value |-> value, next |-> NULL]

\* Variant: the replace is made in the first node of the chain.
ReplacedNodeFirst(s, bucket) == top_nodes[bucket]

\* The node the replace writes to: the one the scan stopped at.
ReplacedNode(s, bucket) == s.node

\* Variant: the new node is stored in the bucket's head, whatever the scan
\* passed.
LinkAtHead(s, bucket) == [top |-> TRUE, idx |-> bucket]

\* *nodep = node;   nodep is where the scan left it: the bucket's head for
\* an empty chain, else the next field of the chain's last node.
LinkAt(s, bucket) == s.nodep

\* polkit_hash_insert; alloc_ok: whether p_new0 would succeed; mem: what the
\* key pointers read as.
polkit_hash_insert(key, value, alloc_ok, mem) ==
    /\ h = "live"
    /\ LET bucket == Bucket(key, mem)
           s == InsertScan(top_nodes[bucket], [top |-> TRUE, idx |-> bucket], key, mem, Fuel)
           can == alloc_ok /\ FreeNodes # {}
           node == NewNode
       IN  /\ ~s.hang
           /\ call' = Call("insert", key, value, "NULL", "NULL", can, TRUE)
           /\ IF AllocFails(s, can)
              THEN /\ log' = AllocFailEvents(key, value)
                   /\ ret' = Ret(FALSE, NULL, FALSE)
                   /\ UNCHANGED <<node_key, node_value, node_next, top_nodes, node_live>>
              ELSE IF s.found
              THEN /\ log' = DestroyEvents(node_key[ReplacedNode(s, bucket)],
                                           node_value[ReplacedNode(s, bucket)])
                   /\ node_key' =
                        [node_key EXCEPT
                           ![ReplacedNode(s, bucket)] =
                               StoreOnReplace(ReplacedNode(s, bucket), key, value).key]
                   /\ node_value' =
                        [node_value EXCEPT
                           ![ReplacedNode(s, bucket)] =
                               StoreOnReplace(ReplacedNode(s, bucket), key, value).value]
                   /\ ret' = Ret(TRUE, NULL, FALSE)
                   /\ UNCHANGED <<node_next, top_nodes, node_live>>
              ELSE /\ log' = <<Ev("alloc_node", node)>>
                   /\ node_live' = node_live \cup {node}
                   /\ node_key' = [node_key EXCEPT ![node] = NewNodeFields(key, value).key]
                   /\ node_value' = [node_value EXCEPT ![node] = NewNodeFields(key, value).value]
                   /\ node_next' =
                        [n \in NodeIds |->
                            IF n = node THEN NewNodeFields(key, value).next
                            ELSE IF ~LinkAt(s, bucket).top /\ n = LinkAt(s, bucket).idx
                            THEN node
                            ELSE node_next[n]]
                   /\ top_nodes' =
                        IF LinkAt(s, bucket).top
                        THEN [top_nodes EXCEPT ![LinkAt(s, bucket).idx] = node]
                        ELSE top_nodes
                   /\ ret' = Ret(TRUE, NULL, FALSE)
    /\ key_freed' = KeyFreedAfter(log')
    /\ value_freed' = ValueFreedAfter(log')
    /\ ref' = IF ret'.ok
              THEN [x \in KeyObjs |->
                        IF RefEqual(x, key) THEN [set |-> TRUE, value |-> value] ELSE ref[x]]
              ELSE ref
    /\ given_keys' = IF ret'.ok /\ key_destroy_func # "NULL"
                     THEN given_keys \cup {key} ELSE given_keys
    /\ given_values' = IF ret'.ok /\ value_destroy_func # "NULL" /\ value # NULL
                       THEN given_values \cup {value} ELSE given_values
    /\ UNCHANGED <<h, refcount, num_top_nodes, top_live, hash_func, key_equal_func,
                   key_destroy_func, value_destroy_func, acquires, releases>>
    /\ UNCHANGED avars

\* polkit_hash_lookup (hash, key, &found)
Lookup(key, mem) ==
    /\ h = "live"
    /\ LET r == polkit_hash_lookup(key, mem)
       IN  /\ ~r.hang
           /\ ret' = Ret(TRUE, r.value, r.found)
    /\ call' = Call("lookup", key, NULL, "NULL", "NULL", TRUE, TRUE)
    /\ log' = <<>>
    /\ UNCHANGED avars
    /\ UNCHANGED <<h, refcount, num_top_nodes, top_nodes, top_live, hash_func,
                   key_equal_func, key_destroy_func, value_destroy_func,
                   node_live, node_key, node_value, node_next,
                   key_freed, value_freed, ref, given_keys, given_values,
                   acquires, releases>>

New ==
    \E p \in FnPairs, kd \in FreeFuncs, vd \in FreeFuncs, a1 \in BOOLEAN, a2 \in BOOLEAN :
        polkit_hash_new(p[1], p[2], kd, vd, a1, a2)

HashRef == polkit_hash_ref

Unref == polkit_hash_unref

Insert ==
    \E key \in OwnedKeys, value \in OwnedValues, alloc_ok \in BOOLEAN, mem \in Views :
        polkit_hash_insert(key, value, alloc_ok, mem)

DoLookup == \E key \in LiveKeys, mem \in Views : Lookup(key, mem)

Next == New \/ HashRef \/ Unref \/ Insert \/ DoLookup

Spec == Init /\ [][Next]_vars

\* A caller that passes any pair of the built-in hash and equality
\* functions, consistent or not.
NewAnyFns ==
    \E hf \in HashFuncs, ef \in EqualFuncs, kd \in FreeFuncs, vd \in FreeFuncs,
       a1 \in BOOLEAN, a2 \in BOOLEAN :
        polkit_hash_new(hf, ef, kd, vd, a1, a2)

NextFns == NewAnyFns \/ HashRef \/ Unref \/ Insert \/ DoLookup

SpecFns == Init /\ [][NextFns]_vars

\* A caller that also passes to insert a live key or value object that the
\* table holds already and owns (followed up to the first call that leaves
\* a destroyed object in a node).
InsertStored ==
    \E key \in LiveKeys, value \in {NULL} \cup {v \in ValObjs : value_freed[v] = 0},
       alloc_ok \in BOOLEAN, mem \in Views :
        /\ Dangling = {} /\ DanglingValues = {}
        /\ key \notin OwnedKeys \/ value \notin OwnedValues
        /\ polkit_hash_insert(key, value, alloc_ok, mem)

NextAlias == New \/ HashRef \/ Unref \/ Insert \/ DoLookup \/ InsertStored

SpecAlias == Init /\ [][NextAlias]_vars


\* ------------------------------------------ actions of the action object
\* What the g_free calls of log l do to the string blocks.
StrFreedAfter(l) ==
    [b \in StrBlocks |-> Min(2, str_freed[b] + CountEv(l, "g_free", b))]

\* libpolkit_action_new: g_new0, refcount = 1 (id is zeroed)
libpolkit_action_new ==
    /\ action = "NULL"
    /\ action' = "live"
    /\ a_refcount' = 1
    /\ a_id' = NULL
    /\ a_acquires' = 1
    /\ acall' = ACall("new", NoId, FALSE)
    /\ aret' = TRUE
    /\ alog' = <<Ev("alloc_action", 1)>>
    /\ UNCHANGED <<str_used, str_text, str_freed, out, last_id, a_releases>>
    /\ UNCHANGED hvars

\* libpolkit_action_ref
libpolkit_action_ref ==
    /\ action = "live"
    /\ a_acquires < MaxRef
    /\ a_refcount' = a_refcount + 1
    /\ a_acquires' = a_acquires + 1
    /\ acall' = ACall("ref", NoId, FALSE)
    /\ aret' = TRUE
    /\ alog' = <<>>
    /\ UNCHANGED <<action, a_id, str_used, str_text, str_freed, out, last_id, a_releases>>
    /\ UNCHANGED hvars

\* g_free (action->id); g_free (action);   g_free (NULL) does nothing
ActionFreeEvents ==
    (IF a_id # NULL THEN <<Ev("g_free", a_id)>> ELSE <<>>) \o <<Ev("free_action", 1)>>

\* libpolkit_action_unref, called by a holder of a reference
libpolkit_action_unref ==
    /\ action = "live"
    /\ a_releases < a_acquires
    /\ a_refcount' = a_refcount - 1
    /\ a_releases' = a_releases + 1
    /\ acall' = ACall("unref", NoId, FALSE)
    /\ aret' = TRUE
    /\ alog' = IF a_refcount' > 0 THEN <<>> ELSE ActionFreeEvents
    /\ action' = IF HasEv(alog', "free_action") THEN "freed" ELSE action
    /\ str_freed' = StrFreedAfter(alog')
    /\ UNCHANGED <<a_id, str_used, str_text, out, last_id, a_acquires>>
    /\ UNCHANGED hvars

\* if (action->id != NULL) g_free (action->id);
OldIdFreeEvents == IF a_id # NULL THEN <<Ev("g_free", a_id)>> ELSE <<>>

\* libpolkit_action_set_action_id (action, action_id); seen: the bytes
\* g_strdup reads through action_id (g_strdup (NULL) is NULL).
libpolkit_action_set_action_id(arg, seen) ==
    /\ action = "live"
    /\ arg.kind # "null" => str_used < MaxStr
    /\ acall' = ACall("set", arg, FALSE)
    /\ aret' = TRUE
    /\ last_id' = arg
    /\ alog' = OldIdFreeEvents
                \o (IF arg.kind # "null" THEN <<Ev("g_strdup", str_used + 1)>> ELSE <<>>)
    /\ str_freed' = StrFreedAfter(alog')
    /\ IF arg.kind = "null"
       THEN /\ a_id' = NULL
            /\ UNCHANGED <<str_used, str_text>>
       ELSE /\ a_id' = str_used + 1
            /\ str_used' = str_used + 1
            /\ str_text' = [str_text EXCEPT ![str_used + 1] = seen]
    /\ UNCHANGED <<action, a_refcount, out, a_acquires, a_releases>>
    /\ UNCHANGED hvars

\* libpolkit_action_get_action_id (action, out_action_id); has_out: whether
\* out_action_id is not NULL.
libpolkit_action_get_action_id(has_out) ==
    /\ action = "live"
    /\ acall' = ACall("get", NoId, has_out)
    /\ alog' = <<>>
    /\ IF ~has_out \/ a_id = NULL
       THEN aret' = FALSE /\ out' = out
       ELSE aret' = TRUE /\ out' = a_id
    /\ UNCHANGED <<action, a_refcount, a_id, str_used, str_text, str_freed, last_id,
                   a_acquires, a_releases>>
    /\ UNCHANGED hvars

ActionNew == libpolkit_action_new

ActionRef == libpolkit_action_ref

ActionUnref == libpolkit_action_unref

\* A caller passing NULL or a string of its own.
SetActionId ==
    \/ libpolkit_action_set_action_id(NoId, <<>>)
    \/ \E text \in IdTexts : libpolkit_action_set_action_id(IdArg("own", text), text)

GetActionId == \E has_out \in BOOLEAN : libpolkit_action_get_action_id(has_out)

NextAction == ActionNew \/ ActionRef \/ ActionUnref \/ SetActionId \/ GetActionId

SpecAction == Init /\ [][NextAction]_vars

\* A caller passing back the string libpolkit_action_get_action_id gave it
\* while the action still holds it: the block is freed before g_strdup
\* reads it.
SetHeldId ==
    \E seen \in Clobbered :
        /\ out # NULL
        /\ out = a_id
        /\ libpolkit_action_set_action_id(IdArg("held", str_text[a_id]), seen)

NextActionHeld ==
    ActionNew \/ ActionRef \/ ActionUnref \/ SetActionId \/ GetActionId \/ SetHeldId

SpecActionHeld == Init /\ [][NextActionHeld]_vars

\* =============================================================== claims
\* Some stored key equals key under the table's equality function.
KeyStored(key) == \E n \in node_live : RefEqual(key, node_key[n])

DestroyRan(l) == HasEv(l, "key_destroy") \/ HasEv(l, "value_destroy")

\* C1: map semantics against the reference map ref: while the table is
\* live, looking up any key for which an equal key was successfully
\* inserted finds it and returns the value of the most recent successful
\* insert of an equal key; the same holds of the result of every lookup
\* call that was made.
C1_MapSemantics ==
    h = "live" =>
        /\ \A k \in LiveKeys :
              ref[k].set =>
                  /\ polkit_hash_lookup(k, Mem0).found
                  /\ polkit_hash_lookup(k, Mem0).value = ref[k].value
        /\ (call.op = "lookup" /\ ref[call.key].set) =>
              (ret.found /\ ret.value = ref[call.key].value)

\* A lookup that returned a value stored by a replace of an equal key held
\* in another key object, in a table of two nodes.
C1_Witness ==
    /\ h = "live"
    /\ call.op = "lookup"
    /\ ret.found
    /\ ret.value # NULL
    /\ \E k \in KeyObjs : key_freed[k] = 1
    /\ Cardinality(node_live) = 2

\* C2: the found flag of a lookup is TRUE exactly when a node holds a key
\* equal to the looked-up key, whatever that node's value: a key never
\* inserted gives found = FALSE and NULL, a stored key gives found = TRUE
\* and its node's value, NULL included.
C2_FoundFlag ==
    (h = "live" /\ call.op = "lookup") =>
        /\ ret.found = KeyStored(call.key)
        /\ ~ref[call.key].set => (~ret.found /\ ret.value = NULL)
        /\ ~ret.found => ret.value = NULL
        /\ ret.found =>
              \E n \in node_live :
                  RefEqual(call.key, node_key[n]) /\ ret.value = node_value[n]

\* A lookup that found a key whose stored value is NULL.
C2_Witness ==
    /\ h = "live"
    /\ call.op = "lookup"
    /\ ret.found
    /\ ret.value = NULL
    /\ ref[call.key].set

\* The destroy callbacks a replace of node n is to make: key_destroy_func
\* once on n's old key, value_destroy_func once on n's old value (each when
\* set), and nothing else.
ReplaceDestroys(l, oldkey, oldvalue) ==
    /\ \A k \in KeyObjs :
          CountEv(l, "key_destroy", k)
              = (IF key_destroy_func # "NULL" /\ k = oldkey THEN 1 ELSE 0)
    /\ \A v \in ValObjs \cup {NULL} :
          CountEv(l, "value_destroy", v)
              = (IF value_destroy_func # "NULL" /\ v = oldvalue THEN 1 ELSE 0)
    /\ Len(l) = (IF key_destroy_func # "NULL" THEN 1 ELSE 0)
                + (IF value_destroy_func # "NULL" THEN 1 ELSE 0)

\* C3: an insert whose key equals a stored key adds no node, leaves the
\* node holding the new key and the new value, runs the destroy functions
\* exactly once on that node's old key and old value, and touches no other
\* node.
C3_Replace ==
    [][(call'.op = "insert" /\ KeyStored(call'.key)) =>
          /\ node_live' = node_live
          /\ \E n \in node_live :
                /\ RefEqual(call'.key, node_key[n])
                /\ node_key'[n] = call'.key
                /\ node_value'[n] = call'.value
                /\ ReplaceDestroys(log', node_key[n], node_value[n])
                /\ \A m \in node_live \ {n} :
                      node_key'[m] = node_key[m] /\ node_value'[m] = node_value[m]
                /\ key_freed' =
                      [k \in KeyObjs |->
                          IF key_destroy_func # "NULL" /\ k = node_key[n]
                          THEN key_freed[k] + 1 ELSE key_freed[k]]
                /\ value_freed' =
                      [v \in ValObjs |->
                          IF value_destroy_func # "NULL" /\ v = node_value[n]
                          THEN value_freed[v] + 1 ELSE value_freed[v]]]_vars

\* The state after a replace in a table of two nodes that owns keys and
\* values: both destroy functions have just run.
C3_Witness ==
    /\ h = "live"
    /\ call.op = "insert"
    /\ HasEv(log, "key_destroy")
    /\ HasEv(log, "value_destroy")
    /\ Cardinality(node_live) = 2
    /\ \E n \in node_live : node_key[n] = call.key /\ node_value[n] = call.value

\* C4: an insert of a key not in the table whose node allocation fails
\* returns FALSE, leaves the table (chains, keys, values, refcount) as it
\* was and runs no destroy function; and no insert that returns FALSE
\* changes anything.
C4_InsertOom ==
    [][(call'.op = "insert" /\ ((~call'.alloc1 /\ ~KeyStored(call'.key)) \/ ~ret'.ok)) =>
          /\ ~ret'.ok
          /\ UNCHANGED table
          /\ UNCHANGED <<key_freed, value_freed, given_keys, given_values>>
          /\ ~DestroyRan(log')
          /\ ~HasEv(log', "alloc_node")]_vars

\* A failed insert into a table that holds nodes and owns keys and values.
C4_Witness ==
    /\ h = "live"
    /\ call.op = "insert"
    /\ ~ret.ok
    /\ node_live # {}
    /\ key_destroy_func # "NULL"
    /\ value_destroy_func # "NULL"
    /\ call.value # NULL

\* C5: an insert whose key equals a stored key allocates nothing and
\* returns TRUE, also when the allocator can give no node.
C5_ReplaceNeverFails ==
    [][(call'.op = "insert" /\ KeyStored(call'.key)) =>
          /\ ret'.ok
          /\ ~HasEv(log', "alloc_node")
          /\ ~HasEv(log', "alloc_fail")
          /\ node_live' = node_live]_vars

\* A replace that succeeded while no node could be allocated.
C5_Witness ==
    /\ h = "live"
    /\ call.op = "insert"
    /\ ret.ok
    /\ ~call.alloc1
    /\ ~HasEv(log, "alloc_node")

\* C6: a table that owns keys/values destroys each object handed to it
\* exactly once: never twice, no live node holds a destroyed key or value,
\* and after the final release every object handed over has been
\* destroyed - for every argument a caller may pass to insert, the object
\* currently stored included.
C6_ExclusiveOwnership ==
    /\ \A k \in KeyObjs : key_freed[k] <= 1
    /\ \A v \in ValObjs : value_freed[v] <= 1
    /\ h = "live" => (Dangling = {} /\ DanglingValues = {})
    /\ h = "freed" =>
          /\ \A k \in given_keys : key_freed[k] = 1
          /\ \A v \in given_values : value_freed[v] = 1

\* C7 as stated: with N references taken (construction included), no
\* destroy function runs during the first N polkit_hash_unref calls.
C7_NoDestroyInFirstN ==
    (call.op = "unref" /\ releases <= acquires) => ~DestroyRan(log)

\* C7 amended: with N references taken (construction included), the first
\* N-1 polkit_hash_unref calls run no destroy function and free nothing,
\* and the N-th tears the table down, running the destroy functions on the
\* key and value of every node it frees.
C7_ReleaseCount ==
    /\ h = "live" => releases < acquires
    /\ call.op = "unref" =>
          /\ releases < acquires => (h = "live" /\ log = <<>>)
          /\ releases = acquires =>
                /\ h = "freed"
                /\ HasEv(log, "free_hash")
                /\ node_live = {}
                /\ \A n \in NodeIds :
                      CountEv(log, "free_node", n) = 1 =>
                          /\ key_destroy_func # "NULL" =>
                                CountEv(log, "key_destroy", node_key[n]) >= 1
                          /\ value_destroy_func # "NULL" =>
                                CountEv(log, "value_destroy", node_value[n]) >= 1

\* The second of two releases after one polkit_hash_ref: the table is torn
\* down and the destroy functions have run.
C7_Witness ==
    /\ call.op = "unref"
    /\ acquires = 2
    /\ releases = 2
    /\ HasEv(log, "key_destroy")
    /\ HasEv(log, "value_destroy")

\* C8: polkit_hash_new returns NULL without allocating when hash_func or
\* key_equal_func is NULL, returns NULL when the table or the bucket array
\* cannot be allocated, in the latter case releasing the table through
\* polkit_hash_unref without reading the NULL bucket array, so that nothing
\* stays allocated; on success refcount is 1 and all buckets are empty.
C8_Construction ==
    call.op = "new" =>
        /\ ret.ok = (NewArgsOk(call.hash_func, call.key_equal_func)
                        /\ call.alloc1 /\ call.alloc2)
        /\ ~NewArgsOk(call.hash_func, call.key_equal_func) => log = <<>>
        /\ (NewArgsOk(call.hash_func, call.key_equal_func) /\ ~call.alloc1) =>
              ~HasEv(log, "alloc_hash")
        /\ ~ret.ok =>
              /\ h = "NULL"
              /\ ~top_live
              /\ node_live = {}
              /\ ~HasEv(log, "segv")
              /\ HasEv(log, "alloc_hash") => CountEv(log, "free_hash", 1) = 1
        /\ ret.ok =>
              /\ h = "live"
              /\ refcount = 1
              /\ top_live
              /\ DOMAIN top_nodes = 0..(NUM_TOP_NODES - 1)
              /\ \A i \in DOMAIN top_nodes : top_nodes[i] = NULL
              /\ node_live = {}

\* A construction whose bucket array allocation failed: the table block was
\* allocated and freed again.
C8_Witness ==
    /\ call.op = "new"
    /\ ~ret.ok
    /\ HasEv(log, "alloc_hash")
    /\ HasEv(log, "free_hash")

\* C9: a lookup changes nothing of the table (refcount, bucket array,
\* nodes, keys, values, links), runs no destroy function, and two
\* consecutive lookups of the same key return the same result.
C9_LookupReadOnly ==
    [][call'.op = "lookup" =>
          /\ UNCHANGED table
          /\ UNCHANGED <<key_freed, value_freed>>
          /\ log' = <<>>
          /\ (call.op = "lookup" /\ call.key = call'.key) => ret' = ret]_vars

\* A lookup that hit in a table of two nodes owning its keys.
C9_Witness ==
    /\ h = "live"
    /\ call.op = "lookup"
    /\ ret.found
    /\ key_destroy_func # "NULL"
    /\ Cardinality(node_live) = 2

\* No two nodes of a live table hold equal keys.
NoDuplicateKeys ==
    h = "live" =>
        \A n1, n2 \in node_live :
            n1 # n2 => ~RefEqual(node_key[n1], node_key[n2])

\* C10 as stated: for whatever hash and equality functions the caller
\* supplied, no two nodes of a live table hold equal keys.
C10_NoDuplicatesAnyFns == NoDuplicateKeys

\* C10 amended: when equal_fn is an equivalence relation and hash_fn is
\* consistent with it (equal keys have equal hashes), no two nodes of a
\* live table hold equal keys.
C10_NoDuplicatesConsistent ==
    ConsistentFns(hash_func, key_equal_func) => NoDuplicateKeys

\* A table with consistent functions and two nodes, right after a replace.
C10_Witness ==
    /\ h = "live"
    /\ ConsistentFns(hash_func, key_equal_func)
    /\ Cardinality(node_live) = 2
    /\ call.op = "insert"
    /\ ret.ok
    /\ ~HasEv(log, "alloc_node")

\* The nodes met when following next from node, in order; ends with NULL
\* when the walk does not reach the end of the chain within fuel steps.
RECURSIVE ChainFrom(_, _)
ChainFrom(node, fuel) ==
    IF node = NULL THEN <<>>
    ELSE IF fuel = 0 THEN <<NULL>>
    ELSE <<node>> \o ChainFrom(node_next[node], fuel - 1)

\* The chain of bucket b.
ChainOf(b) == ChainFrom(top_nodes[b], Fuel)

InChain(n, b) == \E i \in DOMAIN ChainOf(b) : ChainOf(b)[i] = n

\* polkit_uint32_t values around the sign bit and at both ends.
HashSamples == {0, 1, 32767, 32768, 65535} \X {0, 1, 32768, 65535}

\* C11: while the table is live, num_top_nodes is 11 and the bucket array
\* has that many entries; every live node is in the chain of bucket
\* hash_func (node->key) % num_top_nodes, also when a replace stored a new
\* key in it; the index is in 0..num_top_nodes-1 for every hash value,
\* those of 2^31 and more included; and a lookup computes the index insert
\* did: it finds every stored key.
C11_BucketPlacement ==
    h = "live" =>
        /\ num_top_nodes = NUM_TOP_NODES
        /\ DOMAIN top_nodes = 0..(num_top_nodes - 1)
        /\ \A n \in node_live :
              LET b == UMod(HashOf(hash_func, node_key[n], Mem0), num_top_nodes)
              IN  b \in 0..(num_top_nodes - 1) /\ InChain(n, b)
        /\ \A k \in LiveKeys : Bucket(k, Mem0) \in 0..(num_top_nodes - 1)
        /\ \A hv \in HashSamples : UMod(hv, num_top_nodes) \in 0..(num_top_nodes - 1)
        /\ \A n \in node_live :
              polkit_hash_lookup(node_key[n], Mem0).found
        /\ (call.op = "lookup" /\ KeyStored(call.key)) => ret.found

\* The state after a replace of a key whose hash value is 2^31 or more, in
\* a table of two nodes: the node holds the key passed and is in its bucket.
C11_Witness ==
    /\ h = "live"
    /\ call.op = "insert"
    /\ ret.ok
    /\ ~HasEv(log, "alloc_node")
    /\ HashOf(hash_func, call.key, Mem0)[1] >= 32768
    /\ Cardinality(node_live) = 2
    /\ \E n \in node_live :
          node_key[n] = call.key /\ InChain(n, Bucket(call.key, Mem0))

\* The number of events the teardown makes per node: the destroy calls that
\* are set, and the p_free of the node.
EventsPerNode ==
    1 + (IF key_destroy_func # "NULL" THEN 1 ELSE 0)
      + (IF value_destroy_func # "NULL" THEN 1 ELSE 0)

\* C12: the polkit_hash_unref that takes refcount from 1 to 0 frees every
\* live node exactly once and nothing else; right before a node is freed,
\* key_destroy_func is run on its key and then value_destroy_func on its
\* value (each when set), so every stored key and value object is destroyed
\* exactly once; the bucket array and then the table are freed last, after
\* all nodes.
C12_FinalTeardown ==
    [][(call'.op = "unref" /\ refcount = 1) =>
          /\ Len(log') = Cardinality(node_live) * EventsPerNode + 2
          /\ log'[Len(log') - 1] = Ev("free_top_nodes", 1)
          /\ log'[Len(log')] = Ev("free_hash", 1)
          /\ \A n \in NodeIds :
                CountEv(log', "free_node", n) = (IF n \in node_live THEN 1 ELSE 0)
          /\ \A i \in DOMAIN log' :
                log'[i].ev = "free_node" =>
                    /\ i >= EventsPerNode
                    /\ value_destroy_func # "NULL" =>
                          log'[i - 1] = Ev("value_destroy", node_value[log'[i].arg])
                    /\ key_destroy_func # "NULL" =>
                          log'[i - EventsPerNode + 1] = Ev("key_destroy", node_key[log'[i].arg])
          /\ key_freed' =
                [k \in KeyObjs |->
                    IF key_destroy_func # "NULL" /\ k \in StoredKeys THEN 1 ELSE key_freed[k]]
          /\ value_freed' =
                [v \in ValObjs |->
                    IF value_destroy_func # "NULL" /\ v \in StoredValues
                    THEN 1 ELSE value_freed[v]]
          /\ node_live' = {}
          /\ ~top_live'
          /\ h' = "freed"]_vars

\* The state after the teardown of a table of two nodes that owns keys and
\* values: two nodes freed, each after its key and its value.
C12_Witness ==
    /\ h = "freed"
    /\ call.op = "unref"
    /\ Len(log) = 8
    /\ log[3].ev = "free_node"
    /\ log[6].ev = "free_node"
    /\ log[4].ev = "key_destroy"
    /\ log[5].ev = "value_destroy"
    /\ log[5].arg # NULL

\* What a table holds: the bucket array, the nodes and the functions.
contents == <<num_top_nodes, top_nodes, top_live, hash_func, key_equal_func,
              key_destroy_func, value_destroy_func,
              node_live, node_key, node_value, node_next>>

\* C13: refcount is 1 after a successful polkit_hash_new, goes up by one in
\* polkit_hash_ref and down by one in polkit_hash_unref, and is left alone
\* by insert and lookup; it is at least 1 while the table is live (and is
\* the number of references taken and not yet released); the table is torn
\* down in exactly the unref that takes it from 1 to 0; a ref and an unref
\* from more than 1 change nothing the table holds and run no destroy
\* function; polkit_hash_ref returns the handle it was given.
C13_Refcount ==
    [][/\ (call'.op = "new" /\ ret'.ok) => refcount' = 1
       /\ call'.op = "ref" =>
             /\ refcount' = refcount + 1
             /\ ret'.value = HashBlock
             /\ h' = "live"
             /\ log' = <<>>
             /\ UNCHANGED contents
             /\ UNCHANGED <<key_freed, value_freed>>
       /\ call'.op = "unref" =>
             /\ refcount' = refcount - 1
             /\ (h' = "freed") = (refcount = 1)
             /\ refcount > 1 =>
                   /\ h' = "live"
                   /\ log' = <<>>
                   /\ UNCHANGED contents
                   /\ UNCHANGED <<key_freed, value_freed>>
       /\ call'.op \in {"insert", "lookup"} => (refcount' = refcount /\ h' = h)
       /\ h' = "live" => (refcount' >= 1 /\ refcount' = acquires' - releases')]_vars

\* The state after an unref that was not the last, on a table that holds
\* two nodes and owns keys and values.
C13_Witness ==
    /\ h = "live"
    /\ call.op = "unref"
    /\ refcount = 1
    /\ acquires = 2
    /\ Cardinality(node_live) = 2
    /\ key_destroy_func # "NULL"
    /\ value_destroy_func # "NULL"

Buckets == 0..(NUM_TOP_NODES - 1)

\* Node blocks are numbered in the order p_new0 returned them and none is
\* freed before the teardown, so a chain is in insertion order when its
\* block numbers go up.
InInsertionOrder(c) == \A i, j \in DOMAIN c : i < j => c[i] < c[j]

\* C14: a successful insert of a key that is not stored appends one new
\* node, holding that key, to the chain of the key's bucket and leaves all
\* other chains as they were; a replace leaves every chain (the order and
\* the position of every node) as it was; every chain is in the order in
\* which its nodes were inserted.
C14_ChainOrder ==
    [][(call'.op = "insert" /\ ret'.ok) =>
          /\ KeyStored(call'.key) =>
                /\ \A b \in Buckets : ChainOf(b)' = ChainOf(b)
                /\ UNCHANGED <<top_nodes, node_next, node_live>>
          /\ ~KeyStored(call'.key) =>
                \E n \in node_live' \ node_live :
                    /\ node_live' = node_live \cup {n}
                    /\ node_key'[n] = call'.key
                    /\ \A b \in Buckets :
                          ChainOf(b)' =
                              IF b = UMod(HashOf(hash_func, call'.key, Mem0), num_top_nodes)
                              THEN Append(ChainOf(b), n)
                              ELSE ChainOf(b)
          /\ \A b \in Buckets : InInsertionOrder(ChainOf(b)')]_vars

\* The state after an insert that appended a second node to a chain.
C14_Witness ==
    /\ h = "live"
    /\ call.op = "insert"
    /\ ret.ok
    /\ HasEv(log, "alloc_node")
    /\ \E b \in Buckets :
          /\ Len(ChainOf(b)) = 2
          /\ ChainOf(b)[2] = log[1].arg
          /\ node_key[ChainOf(b)[2]] = call.key

IsKeyDestroy(e) == e.ev = "key_destroy"

IsValueDestroy(e) == e.ev = "value_destroy"

\* The nodes of the table in the order the teardown meets them: bucket by
\* bucket from b on, each chain from its head.
RECURSIVE NodesFrom(_)
NodesFrom(b) ==
    IF b >= NUM_TOP_NODES THEN <<>> ELSE ChainOf(b) \o NodesFrom(b + 1)

\* The key_destroy_func calls a table that owns its keys makes when it
\* releases the nodes ns, in order; the same for the values.
KeyDestroysOf(ns) == [i \in DOMAIN ns |-> Ev("key_destroy", node_key[ns[i]])]

ValueDestroysOf(ns) == [i \in DOMAIN ns |-> Ev("value_destroy", node_value[ns[i]])]

\* The nodes a call releases or replaces: the matching node for an insert
\* of a stored key, all nodes for the unref from 1 to 0, none otherwise.
ReleasedBy(c) ==
    IF c.op = "insert" /\ KeyStored(c.key)
    THEN <<CHOOSE n \in node_live : RefEqual(c.key, node_key[n])>>
    ELSE IF c.op = "unref" /\ refcount = 1 THEN NodesFrom(0)
    ELSE <<>>

\* C15: in every call, the key_destroy_func calls made are none when
\* key_destroy_func is NULL and otherwise one per node released or
\* replaced, on its key, whatever value_destroy_func is; the same holds of
\* value_destroy_func and the values, whatever key_destroy_func is; a slot
\* without destroy function is never released.
C15_DestroyPerSlot ==
    [][/\ SelectSeq(log', IsKeyDestroy) =
             (IF key_destroy_func' # "NULL" THEN KeyDestroysOf(ReleasedBy(call')) ELSE <<>>)
       /\ SelectSeq(log', IsValueDestroy) =
             (IF value_destroy_func' # "NULL" THEN ValueDestroysOf(ReleasedBy(call')) ELSE <<>>)
       /\ key_destroy_func' = "NULL" => key_freed' = [k \in KeyObjs |-> 0]
       /\ value_destroy_func' = "NULL" => value_freed' = [v \in ValObjs |-> 0]]_vars

\* The state after the teardown of a table of two nodes built with
\* value_destroy_func only: the values were destroyed, no key was.
C15_Witness ==
    /\ h = "freed"
    /\ call.op = "unref"
    /\ key_destroy_func = "NULL"
    /\ value_destroy_func # "NULL"
    /\ Len(log) = 6
    /\ \E v \in ValObjs : value_freed[v] = 1
    /\ \A k \in KeyObjs : key_freed[k] = 0

\* The while loop of polkit_hash_lookup over the nodes with keys nk, values
\* nv and links nn.
RECURSIVE ScanIn(_, _, _, _, _, _)
ScanIn(nk, nv, nn, node, key, fuel) ==
    IF node = NULL THEN LookupMiss
    ELSE IF fuel = 0 THEN [value |-> NULL, found |-> FALSE, hang |-> TRUE]
    ELSE IF KeyEqual(key_equal_func, key, nk[node], Mem0)
         THEN [value |-> nv[node], found |-> TRUE, hang |-> FALSE]
         ELSE ScanIn(nk, nv, nn, nn[node], key, fuel - 1)

\* polkit_hash_lookup (hash, key, &found) on the table whose bucket array
\* is tn and whose nodes are nk, nv, nn.
LookupIn(tn, nk, nv, nn, key) ==
    ScanIn(nk, nv, nn, tn[Bucket(key, Mem0)], key, Fuel)

\* The nodes whose key or value a step writes, and the nodes it creates.
NodesWritten ==
    {n \in node_live : node_key'[n] # node_key[n] \/ node_value'[n] # node_value[n]}
    \cup (node_live' \ node_live)

\* C16: a successful insert of key creates one node or writes to one node,
\* which then holds key; every other node keeps its key and value, none of
\* which is destroyed; and looking up any key that is not equal to key
\* gives the same value and found flag after the call as before.
C16_InsertFrame ==
    [][(call'.op = "insert" /\ ret'.ok) =>
          /\ Cardinality(NodesWritten) <= 1
          /\ Cardinality(node_live' \ node_live) = (IF KeyStored(call'.key) THEN 0 ELSE 1)
          /\ node_live \subseteq node_live'
          /\ Cardinality({n \in node_live' : RefEqual(call'.key, node_key'[n])}) = 1
          /\ \A n \in node_live' : RefEqual(call'.key, node_key'[n]) =>
                (node_key'[n] = call'.key /\ node_value'[n] = call'.value)
          /\ \A n \in node_live :
                ~RefEqual(call'.key, node_key[n]) =>
                    /\ node_key'[n] = node_key[n]
                    /\ node_value'[n] = node_value[n]
                    /\ key_freed'[node_key[n]] = key_freed[node_key[n]]
                    /\ CountEv(log', "key_destroy", node_key[n]) = 0
                    /\ (value_destroy_func # "NULL" /\ node_value[n] # NULL) =>
                          /\ value_freed'[node_value[n]] = value_freed[node_value[n]]
                          /\ CountEv(log', "value_destroy", node_value[n]) = 0
          /\ \A k \in LiveKeys :
                ~RefEqual(k, call'.key) =>
                    LookupIn(top_nodes', node_key', node_value', node_next', k)
                        = polkit_hash_lookup(k, Mem0)]_vars

\* The state after a replace in a chain of two nodes whose other node holds
\* a key that is found with a value.
C16_Witness ==
    /\ h = "live"
    /\ call.op = "insert"
    /\ ret.ok
    /\ ~HasEv(log, "alloc_node")
    /\ \E b \in Buckets :
          /\ Len(ChainOf(b)) = 2
          /\ \E i \in 1..2 :
                /\ node_key[ChainOf(b)[i]] = call.key
                /\ ~RefEqual(node_key[ChainOf(b)[3 - i]], call.key)
                /\ node_value[ChainOf(b)[3 - i]] # NULL
                /\ polkit_hash_lookup(node_key[ChainOf(b)[3 - i]], Mem0).found

\* A chain that ends (no walk cut short) and meets no node twice.
WellFormed(c) ==
    /\ \A i \in DOMAIN c : c[i] \in node_live
    /\ \A i, j \in DOMAIN c : i # j => c[i] # c[j]

\* C17: while the table is live every chain ends with NULL after live
\* nodes only, meets no node twice and shares no node with another chain,
\* and the chains together hold exactly the live nodes; so the scan of an
\* insert or a lookup of any key ends within as many steps as its chain has
\* nodes, and the walk of the teardown frees each live node once and ends.
C17_ChainsWellFormed ==
    /\ h = "live" =>
          /\ \A b \in Buckets : WellFormed(ChainOf(b))
          /\ WellFormed(NodesFrom(0))
          /\ Len(NodesFrom(0)) = Cardinality(node_live)
          /\ \A n \in NodeIds \ node_live : \A b \in Buckets : top_nodes[b] # n
          /\ \A k \in LiveKeys :
                /\ ~polkit_hash_lookup(k, Mem0).hang
                /\ ~InsertScan(top_nodes[Bucket(k, Mem0)],
                               [top |-> TRUE, idx |-> Bucket(k, Mem0)], k, Mem0, Fuel).hang
                /\ Len(ChainOf(Bucket(k, Mem0))) <= Cardinality(node_live)
          /\ ~HasEv(WalkTable(top_nodes, num_top_nodes), "hang")
          /\ \A n \in node_live :
                CountEv(WalkTable(top_nodes, num_top_nodes), "free_node", n) = 1
    /\ ~HasEv(log, "hang")
    /\ ~HasEv(log, "segv")

\* A live table with a chain of two nodes, right after a lookup that went
\* through both.
C17_Witness ==
    /\ h = "live"
    /\ call.op = "lookup"
    /\ \E b \in Buckets :
          /\ Len(ChainOf(b)) = 2
          /\ node_key[ChainOf(b)[2]] = call.key
          /\ ret.found

\* C18: a get on a live action returns TRUE exactly when the identifier
\* most recently set is not NULL, and then the output is a live string
\* equal to it; it returns FALSE and leaves the output as it was when no
\* identifier was set or the last one was NULL; a set frees the string held
\* before exactly once and nothing else; the action and the string it
\* holds are freed in the unref that takes refcount from 1 to 0 and in no
\* other call, and no string is freed twice.
C18_ActionId ==
    [][/\ (acall'.op = "get" /\ acall'.has_out) =>
             /\ aret' = (last_id.kind # "null")
             /\ aret' =>
                   /\ out' # NULL
                   /\ str_freed'[out'] = 0
                   /\ str_text'[out'] = last_id.text
             /\ ~aret' => out' = out
       /\ acall'.op = "set" =>
             /\ \A b \in StrBlocks :
                   CountEv(alog', "g_free", b) = (IF b = a_id THEN 1 ELSE 0)
             /\ action' = "live"
       /\ acall'.op = "unref" =>
             /\ (action' = "freed") = (a_refcount = 1)
             /\ a_refcount = 1 =>
                   /\ CountEv(alog', "free_action", 1) = 1
                   /\ \A b \in StrBlocks :
                         CountEv(alog', "g_free", b) = (IF b = a_id THEN 1 ELSE 0)
             /\ a_refcount > 1 => alog' = <<>>
       /\ acall'.op \in {"new", "ref", "get"} => (alog' = <<>> \/ acall'.op = "new")
       /\ \A b \in StrBlocks : str_freed'[b] <= 1
       /\ action' = "freed" => \A b \in 1..str_used' : str_freed'[b] = 1]_vars

====
